---- MODULE Spec2Model ----
(***************************************************************************)
(* State-machine model of the Yaqith multi-agent safety API (src/main.py): *)
(* the request handlers health_check, analyze_text, analyze_logo,          *)
(* analyze_url, analyze_all, chat and get_chat_history, together with the  *)
(* two collaborators they call, the workflow (dispatcher + fusion engine)  *)
(* and the repository (session and audit store).  The collaborators' code  *)
(* is not part of src/, so they are modelled from spec.md sections 4.2 to  *)
(* 4.4; the handlers are modelled line by line from src/main.py.           *)
(*                                                                         *)
(* Numbers: a confidence is an integer percentage (70 is 0.7); a risk      *)
(* score is an integer number of millionths (700000 is 0.7), which makes   *)
(* the noisy-OR product of up to three percentages exact.                  *)
(***************************************************************************)
EXTENDS Integers, Sequences, FiniteSets, TLC

\* ------------------------------------------------------------------ bounds
\* A store-writing request (analyze_* or chat) is accepted while the audit
\* tables hold fewer rows than this; the request itself writes without limit.
MaxRows == 2

\* ------------------------------------------------------- input value sets
Modalities == {"text", "logo", "url"}

SessionIds == {"s1", "s2"}

\* The empty session id, which the store rejects.
EmptyId == ""

\* Python's None for the optional session_id of get_chat_history.
None == "None"

\* Confidences an adapter reports with a positive flag, in percent.
Confidences == {20, 30, 70}

\* What a loaded adapter can answer: (triggered, confidence in percent).
Results ==
    {[triggered |-> FALSE, confidence |-> 70]}
        \cup {[triggered |-> TRUE, confidence |-> c] : c \in Confidences}

\* The inputs of a request that supplies the modalities of some set in
\* shapes: the modalities supplied and, for each one whose adapter is
\* loaded, the answer the adapter gives.
InputsOf(shapes, loaded) ==
    UNION {{[given |-> g, out |-> o] : o \in [g \cap loaded -> Results]} :
               g \in shapes}

\* The limit argument of get_chat_history.
Limits == {1, 2}

VARIABLES
    workflow,   \* the global workflow: agent name -> its model is loaded
    db,         \* the database: the sessions and the three audit tables
    last        \* the request being answered: inputs, calls made, response

vars == <<workflow, db, last>>

\* =================================================================
\* Workflow: modality dispatcher and fusion engine (spec.md 4.1-4.3)
\* =================================================================

AgentOf(m) ==
    CASE m = "text" -> "text_agent"
      [] m = "logo" -> "logo_agent"
      [] m = "url" -> "url_agent"

ResultKey(m) ==
    CASE m = "text" -> "text_result"
      [] m = "logo" -> "logo_result"
      [] m = "url" -> "url_result"

\* The per-modality result dictionary with the modality's native flag.
NativeResult(m, r) ==
    CASE m = "text" ->
            [is_fraud |-> r.triggered, confidence |-> r.confidence,
             reason |-> "text reason"]
      [] m = "logo" ->
            [is_suspicious |-> r.triggered, confidence |-> r.confidence,
             reason |-> "logo reason"]
      [] m = "url" ->
            [safe |-> ~r.triggered, confidence |-> r.confidence,
             reason |-> "url reason"]

\* The native flag mapped back to `triggered`.
Triggered(m, d) ==
    CASE m = "text" -> d.is_fraud
      [] m = "logo" -> d.is_suspicious
      [] m = "url" -> ~d.safe

\* The modalities that had input and whose adapter produced a result.
Dispatch(wf, inp) == {m \in inp.given : wf[AgentOf(m)]}

\* The modalities whose adapter is loaded.
Loaded(wf) == {m \in Modalities : wf[AgentOf(m)]}

PercentScale == 100
RiskScale == 1000000
SuspiciousFrom == 300000
DangerousFrom == 700000

Clamp(c) == IF c < 0 THEN 0 ELSE IF c > PercentScale THEN PercentScale ELSE c

Contribution(inp, m) ==
    IF inp.out[m].triggered THEN Clamp(inp.out[m].confidence) ELSE 0

Factor(inp, present, m) ==
    IF m \in present THEN PercentScale - Contribution(inp, m) ELSE PercentScale

\* Noisy-OR: 1 - product of (1 - c_i) over the present modalities.
NoisyOr(inp, present) ==
    RiskScale - Factor(inp, present, "text") * Factor(inp, present, "logo")
                    * Factor(inp, present, "url")

Decide(risk) ==
    IF risk < SuspiciousFrom THEN "safe"
    ELSE IF risk < DangerousFrom THEN "suspicious"
    ELSE "dangerous"

ReasonOf(inp, present, m) ==
    IF m \in present /\ inp.out[m].triggered
    THEN <<NativeResult(m, inp.out[m]).reason>>
    ELSE <<>>

\* Reasons of the triggered modalities in the order text, logo, url.
Explain(inp, present) ==
    LET reasons == ReasonOf(inp, present, "text") \o ReasonOf(inp, present, "logo")
                       \o ReasonOf(inp, present, "url")
    IN  IF reasons = <<>>
        THEN <<"No suspicious indicators detected across analyzed modalities.">>
        ELSE reasons

Fuse(inp, present) ==
    IF present = {}
    THEN [final_decision |-> "unknown", risk_score |-> 0,
          explanation |-> <<"No input provided for analysis.">>]
    ELSE [final_decision |-> Decide(NoisyOr(inp, present)),
          risk_score |-> NoisyOr(inp, present),
          explanation |-> Explain(inp, present)]

\* A dictionary holding key k when cond holds.
Entry(cond, k, v) == IF cond THEN k :> v ELSE <<>>

\* workflow.analyze_sync: the result dictionary of one request.
AnalyzeSync(wf, inp) ==
    LET present == Dispatch(wf, inp)
        per(m) == Entry(m \in present, ResultKey(m), NativeResult(m, inp.out[m]))
    IN  per("text") @@ per("logo") @@ per("url") @@ Fuse(inp, present)

\* result.get(k, default), and the truth of result.get(k) for a result entry.
Get(d, k, default) == IF k \in DOMAIN d THEN d[k] ELSE default
Has(d, k) == k \in DOMAIN d


\* =================================================================
\* Repository: session and audit store (spec.md 4.4)
\* =================================================================

\* A table is the sequence of its rows in insertion order.  Rows keep the
\* owning session and what the row is about.
ScanRow(sid, m) == [session_id |-> sid, modality |-> m]
AttemptRow(sid, source) == [session_id |-> sid, source |-> source]
TurnRow(sid) == [session_id |-> sid, user_message |-> "message"]
NoRow == [session_id |-> None]

EmptyDb == [sessions |-> {}, scans |-> <<>>, attempts |-> <<>>, turns |-> <<>>]

\* The rows of a table that belong to one session, in insertion order.
OfSession(table, sid) == SelectSeq(table, LAMBDA r : r.session_id = sid)

RowCount(st) == Len(st.scans) + Len(st.attempts) + Len(st.turns)

ScanOps == {"save_text_scan", "save_logo_scan", "save_url_scan"}
RecordOps == ScanOps \cup {"save_phishing_attempt", "save_message"}
StoreOps == RecordOps \cup {"create_or_update_session"}

create_or_update_session(st, sid) == [st EXCEPT !.sessions = @ \cup {sid}]
\* Mutant of save_scan: the new row is put in front of the table.
save_scan_front(st, row) == [st EXCEPT !.scans = <<row>> \o @]

save_scan(st, row) == [st EXCEPT !.scans = Append(@, row)]
save_phishing_attempt(st, row) == [st EXCEPT !.attempts = Append(@, row)]
save_message(st, row) == [st EXCEPT !.turns = Append(@, row)]

\* The store refuses an empty session id, and a record operation on a
\* session that was never established.
Refused(st, sid, op) ==
    IF op = "create_or_update_session" /\ sid = EmptyId THEN "InvalidIdentity"
    ELSE IF op \in RecordOps /\ sid \notin st.sessions THEN "UnknownSession"
    ELSE "ok"

\* The database after a call that succeeded.
Apply(st, sid, c) ==
    CASE c.op = "create_or_update_session" -> create_or_update_session(st, sid)
      [] c.op \in ScanOps -> save_scan(st, c.row)
      [] c.op = "save_phishing_attempt" -> save_phishing_attempt(st, c.row)
      [] c.op = "save_message" -> save_message(st, c.row)
      [] OTHER -> st

\* =================================================================
\* Running a handler body: its calls in order, up to the first exception
\* =================================================================

Step(op, row) == [op |-> op, row |-> row]
When(cond, steps) == IF cond THEN steps ELSE <<>>

\* Calls that can raise: every repository call (StorageUnavailable) and the
\* decoding of an uploaded image.
Fallible == StoreOps \cup {"read_image"}

\* The exception call number i raises, "ok" when it returns.  failAt is the
\* number of the call the environment makes fail (0: none).
Outcome(st, sid, c, i, failAt) ==
    IF i = failAt
    THEN (IF c.op = "read_image" THEN "InvalidImage" ELSE "StorageUnavailable")
    ELSE Refused(st, sid, c.op)

RECURSIVE RunFrom(_, _, _, _, _, _)
RunFrom(plan, i, failAt, st, sid, log) ==
    IF i > Len(plan)
    THEN [db |-> st, calls |-> log, error |-> "none"]
    ELSE LET c == plan[i]
             o == Outcome(st, sid, c, i, failAt)
             entry == [op |-> c.op, outcome |-> o]
         IN  IF o # "ok"
             THEN [db |-> st, calls |-> Append(log, entry), error |-> o]
             ELSE RunFrom(plan, i + 1, failAt, Apply(st, sid, c), sid,
                          Append(log, entry))

Run(plan, failAt, st, sid) == RunFrom(plan, 1, failAt, st, sid, <<>>)

\* The calls of a plan the environment may make fail.
FailPoints(plan) == {0} \cup {i \in 1..Len(plan) : plan[i].op \in Fallible}


\* =================================================================
\* Request handlers (src/main.py)
\* =================================================================

\* raise HTTPException(status_code=500, detail=str(e))
Http500(e) == [status_code |-> 500, detail |-> e]

ResultKeys == {"text_result", "logo_result", "url_result"}

\* Mutant of AnalysisResponse: risk_score is left at its default.
AnalysisResponseNoScore(result, keys, sid) ==
    [status_code |-> 200,
     results |-> [k \in keys \cap DOMAIN result |-> result[k]],
     final_decision |-> Get(result, "final_decision", "unknown"),
     risk_score |-> 0,
     explanation |-> Get(result, "explanation", <<>>),
     session_id |-> sid]

\* AnalysisResponse(...): the per-modality results named by keys (None when
\* the workflow returned none), and the fused fields with their defaults.
AnalysisResponse(result, keys, sid) ==
    [status_code |-> 200,
     results |-> [k \in keys \cap DOMAIN result |-> result[k]],
     final_decision |-> Get(result, "final_decision", "unknown"),
     risk_score |-> Get(result, "risk_score", 0),
     explanation |-> Get(result, "explanation", <<>>),
     session_id |-> sid]

\* f"{risk_score:.0%}": the score as a whole percentage, rounded to nearest.
Percent(risk) == (risk + 5000) \div 10000

\* The templated reply of chat: one prose per branch on the decision.
BotMessage(decision, risk_score, explanation) ==
    [prose |-> IF decision = "safe" THEN "Everything looks good"
               ELSE IF decision = "suspicious" THEN "Please be cautious"
               ELSE "Warning! phishing or fraud attempt",
     explanation |-> explanation,
     risk |-> Percent(risk_score)]

ChatResponse(result, sid) ==
    [status_code |-> 200,
     message |-> BotMessage(Get(result, "final_decision", "unknown"),
                            Get(result, "risk_score", 0),
                            Get(result, "explanation", <<>>)),
     analysis |-> AnalysisResponse(result, ResultKeys, sid),
     session_id |-> sid]

\* The calls of each handler body, in program order.
AnalyzeTextPlan(result, sid) ==
    <<Step("create_or_update_session", NoRow), Step("analyze_sync", NoRow)>>
    \o When(Has(result, "text_result"),
            <<Step("save_text_scan", ScanRow(sid, "text"))>>
            \o When(Has(result, "text_result") /\ result.text_result.is_fraud,
                    <<Step("save_phishing_attempt", AttemptRow(sid, "text"))>>))

AnalyzeLogoPlan(result, sid) ==
    <<Step("create_or_update_session", NoRow), Step("read_image", NoRow),
      Step("analyze_sync", NoRow)>>
    \o When(Has(result, "logo_result"),
            <<Step("save_logo_scan", ScanRow(sid, "logo"))>>
            \o When(Has(result, "logo_result") /\ result.logo_result.is_suspicious,
                    <<Step("save_phishing_attempt", AttemptRow(sid, "logo"))>>))

AnalyzeUrlPlan(result, sid) ==
    <<Step("create_or_update_session", NoRow), Step("analyze_sync", NoRow)>>
    \o When(Has(result, "url_result"),
            <<Step("save_url_scan", ScanRow(sid, "url"))>>
            \o When(Has(result, "url_result") /\ ~result.url_result.safe,
                    <<Step("save_phishing_attempt", AttemptRow(sid, "url"))>>))

\* Mutant of AnalyzeAllPlan: the url scan is not saved.
AnalyzeAllPlanNoUrlScan(given, result, sid) ==
    <<Step("create_or_update_session", NoRow)>>
    \o When("logo" \in given, <<Step("read_image", NoRow)>>)
    \o <<Step("analyze_sync", NoRow)>>
    \o When(Has(result, "logo_result") /\ "logo" \in given,
            <<Step("save_logo_scan", ScanRow(sid, "logo"))>>)
    \o When(Has(result, "text_result") /\ "text" \in given,
            <<Step("save_text_scan", ScanRow(sid, "text"))>>)
    \o When(Get(result, "final_decision", None) \in {"suspicious", "dangerous"},
            <<Step("save_phishing_attempt", AttemptRow(sid, "combined"))>>)

AnalyzeAllPlan(given, result, sid) ==
    <<Step("create_or_update_session", NoRow)>>
    \o When("logo" \in given, <<Step("read_image", NoRow)>>)
    \o <<Step("analyze_sync", NoRow)>>
    \o When(Has(result, "logo_result") /\ "logo" \in given,
            <<Step("save_logo_scan", ScanRow(sid, "logo"))>>)
    \o When(Has(result, "text_result") /\ "text" \in given,
            <<Step("save_text_scan", ScanRow(sid, "text"))>>)
    \o When(Has(result, "url_result") /\ "url" \in given,
            <<Step("save_url_scan", ScanRow(sid, "url"))>>)
    \o When(Get(result, "final_decision", None) \in {"suspicious", "dangerous"},
            <<Step("save_phishing_attempt", AttemptRow(sid, "combined"))>>)

\* Mutant of ChatPlan: the session is established after the records.
ChatPlanSessionLast(given, result, sid) ==
    When("logo" \in given, <<Step("read_image", NoRow)>>)
    \o <<Step("analyze_sync", NoRow), Step("save_message", TurnRow(sid))>>
    \o When(Has(result, "logo_result") /\ "logo" \in given,
            <<Step("save_logo_scan", ScanRow(sid, "logo"))>>)
    \o When(Has(result, "text_result"),
            <<Step("save_text_scan", ScanRow(sid, "text"))>>)
    \o When(Has(result, "url_result") /\ "url" \in given,
            <<Step("save_url_scan", ScanRow(sid, "url"))>>)
    \o <<Step("create_or_update_session", NoRow)>>

ChatPlan(given, result, sid) ==
    <<Step("create_or_update_session", NoRow)>>
    \o When("logo" \in given, <<Step("read_image", NoRow)>>)
    \o <<Step("analyze_sync", NoRow), Step("save_message", TurnRow(sid))>>
    \o When(Has(result, "logo_result") /\ "logo" \in given,
            <<Step("save_logo_scan", ScanRow(sid, "logo"))>>)
    \o When(Has(result, "text_result"),
            <<Step("save_text_scan", ScanRow(sid, "text"))>>)
    \o When(Has(result, "url_result") /\ "url" \in given,
            <<Step("save_url_scan", ScanRow(sid, "url"))>>)

\* No request is being answered.
NoRows == [scans |-> 0, attempts |-> 0, turns |-> 0]

Idle ==
    [op |-> "idle", session_id |-> None, given |-> {}, before |-> NoRows,
     result |-> <<>>, calls |-> <<>>, response |-> <<>>]

\* The session ids a request can carry.  Ids are opaque and interchangeable,
\* so the first session to be created is taken to be "s1".
Callers == {EmptyId} \cup (IF db.sessions = {} THEN {"s1"} ELSE SessionIds)

\* A store-writing request is accepted when no other is being answered.
Accepting == last.op = "idle" /\ RowCount(db) < MaxRows

\* The call log holds a call of op.
Called(calls, op) == \E i \in DOMAIN calls : calls[i].op = op

\* One request served: the plan runs against the database until it ends or a
\* call raises; the broad except turns any exception into a 500 response.
\* last.result is the handler's local `result`, unset until analyze_sync ran.
Serve(op, sid, given, result, plan, failAt, response) ==
    LET run == Run(plan, failAt, db, sid)
    IN  /\ db' = run.db
        /\ last' = [op |-> op, session_id |-> sid, given |-> given,
                    before |-> [scans |-> Len(db.scans),
                                attempts |-> Len(db.attempts),
                                turns |-> Len(db.turns)],
                    result |-> IF Called(run.calls, "analyze_sync") THEN result
                               ELSE <<>>,
                    calls |-> run.calls,
                    response |-> IF run.error = "none" THEN response
                                 ELSE Http500(run.error)]
        /\ UNCHANGED workflow

analyze_text ==
    /\ Accepting
    /\ \E sid \in Callers, inp \in InputsOf({{"text"}}, Loaded(workflow)) :
        /\ LET result == AnalyzeSync(workflow, inp)
               plan == AnalyzeTextPlan(result, sid)
           IN  \E failAt \in FailPoints(plan) :
                   Serve("analyze_text", sid, inp.given, result, plan, failAt,
                         AnalysisResponse(result, {"text_result"}, sid))

analyze_logo ==
    /\ Accepting
    /\ \E sid \in Callers, inp \in InputsOf({{"logo"}}, Loaded(workflow)) :
        /\ LET result == AnalyzeSync(workflow, inp)
               plan == AnalyzeLogoPlan(result, sid)
           IN  \E failAt \in FailPoints(plan) :
                   Serve("analyze_logo", sid, inp.given, result, plan, failAt,
                         AnalysisResponse(result, {"logo_result"}, sid))

analyze_url ==
    /\ Accepting
    /\ \E sid \in Callers, inp \in InputsOf({{"url"}}, Loaded(workflow)) :
        /\ LET result == AnalyzeSync(workflow, inp)
               plan == AnalyzeUrlPlan(result, sid)
           IN  \E failAt \in FailPoints(plan) :
                   Serve("analyze_url", sid, inp.given, result, plan, failAt,
                         AnalysisResponse(result, {"url_result"}, sid))

analyze_all ==
    /\ Accepting
    /\ \E sid \in Callers, inp \in InputsOf(SUBSET Modalities, Loaded(workflow)) :
        LET result == AnalyzeSync(workflow, inp)
            plan == AnalyzeAllPlan(inp.given, result, sid)
        IN  \E failAt \in FailPoints(plan) :
                Serve("analyze_all", sid, inp.given, result, plan, failAt,
                      AnalysisResponse(result, ResultKeys, sid))

\* message is a required form field: the text modality always has input.
chat ==
    /\ Accepting
    /\ \E sid \in Callers,
       inp \in InputsOf({g \in SUBSET Modalities : "text" \in g}, Loaded(workflow)) :
        /\ LET result == AnalyzeSync(workflow, inp)
               plan == ChatPlan(inp.given, result, sid)
           IN  \E failAt \in FailPoints(plan) :
                   Serve("chat", sid, inp.given, result, plan, failAt,
                         ChatResponse(result, sid))


\* A request that writes nothing: its record in last.
ReadOnly(op, sid, response) ==
    /\ last' = [op |-> op, session_id |-> sid, given |-> {},
                before |-> [scans |-> Len(db.scans),
                            attempts |-> Len(db.attempts),
                            turns |-> Len(db.turns)],
                result |-> <<>>, calls |-> <<>>, response |-> response]
    /\ UNCHANGED <<workflow, db>>

Agents == {"logo_agent", "text_agent", "url_agent"}

\* Mutant of HealthStatus: one loaded model is enough to be healthy.
HealthStatusAny(models_loaded, db_connected) ==
    IF (\E a \in Agents : models_loaded[a]) /\ db_connected THEN "healthy"
    ELSE IF db_connected THEN "degraded_fallback"
    ELSE "degraded"

HealthStatus(models_loaded, db_connected) ==
    IF (\A a \in Agents : models_loaded[a]) /\ db_connected THEN "healthy"
    ELSE IF db_connected THEN "degraded_fallback"
    ELSE "degraded"

HealthResponse(models_loaded, db_connected) ==
    [status |-> HealthStatus(models_loaded, db_connected),
     models_loaded |-> models_loaded,
     database_connected |-> db_connected]

\* db.execute("SELECT 1") succeeds or raises: db_connected is either value.
health_check ==
    /\ last.op = "idle"
    /\ \E db_connected \in BOOLEAN :
        ReadOnly("health_check", None,
                 HealthResponse([a \in Agents |-> workflow[a]], db_connected))

\* The first n rows of a table read from its newest row backwards.
RECURSIVE MostRecent(_, _)
MostRecent(table, n) ==
    IF n = 0 \/ table = <<>>
    THEN <<>>
    ELSE <<table[Len(table)]>> \o MostRecent(SubSeq(table, 1, Len(table) - 1), n - 1)

\* repo.get_chat_history(session_id, limit), over one session or all.
QueryChatHistory(st, sid, limit) ==
    MostRecent(IF sid = None THEN st.turns ELSE OfSession(st.turns, sid), limit)

ChatHistoryResponse(history) ==
    [status_code |-> 200, history |-> history, total |-> Len(history)]

get_chat_history ==
    /\ last.op = "idle"
    /\ \E sid \in SessionIds \cup {None}, limit \in Limits, ok \in BOOLEAN :
        ReadOnly("get_chat_history", sid,
                 IF ok THEN ChatHistoryResponse(QueryChatHistory(db, sid, limit))
                 ELSE Http500("StorageUnavailable"))

\* =================================================================
\* The system
\* =================================================================

\* After startup: the models that loaded are fixed, the database is empty.
Init ==
    /\ workflow \in [Agents -> BOOLEAN]
    /\ db = EmptyDb
    /\ last = Idle

\* The response leaves the handler; the next request finds the server idle.
Respond ==
    /\ last.op # "idle"
    /\ last' = Idle
    /\ UNCHANGED <<workflow, db>>

Next ==
    \/ health_check
    \/ analyze_text
    \/ analyze_logo
    \/ analyze_url
    \/ analyze_all
    \/ chat
    \/ get_chat_history
    \/ Respond

Spec == Init /\ [][Next]_vars


\* =================================================================
\* Properties
\* =================================================================

AnalyzeOps == {"analyze_text", "analyze_logo", "analyze_url", "analyze_all"}
WriteOps == AnalyzeOps \cup {"chat"}

\* The request being answered returned its result (no exception).
Returned == last.op \in WriteOps /\ last.response.status_code = 200

\* The dispatcher and the fusion engine ran for the request being answered.
Fused == last.op \in WriteOps /\ Called(last.calls, "analyze_sync")

\* The modalities in the dispatcher's result mapping, and the fused decision.
Mapping == {m \in Modalities : Has(last.result, ResultKey(m))}
Decision == Get(last.result, "final_decision", "unknown")
Escalated == Decision \in {"suspicious", "dangerous"}

\* The rows the request being answered appended to each table.
NewRows(table, n) == SubSeq(table, n + 1, Len(table))
NewScans == NewRows(db.scans, last.before.scans)
NewAttempts == NewRows(db.attempts, last.before.attempts)
NewTurns == NewRows(db.turns, last.before.turns)

ScansOf(m) == Len(SelectSeq(NewScans, LAMBDA r : r.modality = m))

\* The analysis part of the response of a returned analyze or chat request.
Analysis == IF last.op = "chat" THEN last.response.analysis ELSE last.response

IsPrefix(s, t) == Len(s) <= Len(t) /\ SubSeq(t, 1, Len(s)) = s

\* The store calls of the request being answered that raised StorageUnavailable.
StorageFailures ==
    {i \in DOMAIN last.calls : last.calls[i].outcome = "StorageUnavailable"}

\* A store write failed after the decision was computed.
FailedAfterDecision ==
    \E i \in StorageFailures : \E j \in 1..(i - 1) : last.calls[j].op = "analyze_sync"

\* C1: an analyze request that returns its result has appended a
\* PhishingAttempt if and only if its fused decision is suspicious or
\* dangerous.
C1_AttemptIffEscalated ==
    (last.op \in AnalyzeOps /\ Returned) => (Len(NewAttempts) >= 1 <=> Escalated)

\* C2: when a store write of an analyze request fails with StorageUnavailable
\* after the decision was computed, the response is not a failure of the whole
\* request and still carries the computed decision, risk score and explanation.
C2_ResultSurvivesStoreFailure ==
    (last.op \in AnalyzeOps /\ FailedAfterDecision)
        => /\ last.response.status_code # 500
           /\ last.response.final_decision = last.result.final_decision
           /\ last.response.risk_score = last.result.risk_score
           /\ last.response.explanation = last.result.explanation

\* C3: health_check answers healthy exactly when all three models are loaded
\* and the store probe succeeded, degraded_fallback exactly when the probe
\* succeeded and some model is not loaded, degraded exactly when the probe
\* failed; the status is always one of the three.
C3_HealthStatus ==
    last.op = "health_check" =>
        LET allLoaded == \A a \in Agents : workflow[a]
            probe == last.response.database_connected
            status == last.response.status
        IN  /\ status \in {"healthy", "degraded_fallback", "degraded"}
            /\ status = "healthy" <=> (allLoaded /\ probe)
            /\ status = "degraded_fallback" <=> (probe /\ ~allLoaded)
            /\ status = "degraded" <=> ~probe
            /\ last.response.models_loaded = workflow

\* C3 witness: a health check with the store reachable and a model missing.
C3_Witness ==
    /\ last.op = "health_check"
    /\ last.response.database_connected
    /\ \E a \in Agents : ~workflow[a]
    /\ last.response.status = "degraded_fallback"

\* No call of the request being answered raised.
NoneRaised == \A i \in DOMAIN last.calls : last.calls[i].outcome = "ok"

\* No result in the mapping has its flag set.
NoneTriggered ==
    \A m \in Mapping : ~Triggered(m, last.result[ResultKey(m)])

C5_ChatRecordsAttempt ==
    (last.op = "chat" /\ Returned)
        => /\ Len(NewTurns) = 1
           /\ Escalated => Len(NewAttempts) >= 1

\* C6: the prose of the chat reply is the safe prose exactly when the decision
\* is safe, the cautious prose exactly when it is suspicious, and the
\* phishing warning exactly when it is dangerous.
C6_ProsePerDecision ==
    (last.op = "chat" /\ Returned)
        => LET prose == last.response.message.prose
               decision == last.response.analysis.final_decision
           IN  /\ prose = "Everything looks good" <=> decision = "safe"
               /\ prose = "Please be cautious" <=> decision = "suspicious"
               /\ prose = "Warning! phishing or fraud attempt"
                      <=> decision = "dangerous"

\* The decision of a response agrees with the thresholds on its risk score.
Consistent(decision, risk) ==
    /\ decision = "safe" <=> risk < SuspiciousFrom
    /\ decision = "suspicious" <=> (SuspiciousFrom <= risk /\ risk < DangerousFrom)
    /\ decision = "dangerous" <=> risk >= DangerousFrom

\* C7 as stated: every response of analyze or chat has a decision that agrees
\* with the thresholds on its risk score, the empty result mapping included.
C7_AlwaysConsistent ==
    Returned => Consistent(Analysis.final_decision, Analysis.risk_score)

\* C7 as amended: the decision of a response agrees with the thresholds on its
\* risk score when the result mapping is not empty; when it is empty the
\* response carries decision unknown and risk score 0.
C7_ConsistentUnlessEmpty ==
    Returned =>
        IF Mapping = {}
        THEN Analysis.final_decision = "unknown" /\ Analysis.risk_score = 0
        ELSE Consistent(Analysis.final_decision, Analysis.risk_score)

\* C7 witness: a response that is dangerous with a risk score on the threshold.
C7_Witness ==
    /\ Returned
    /\ Mapping # {}
    /\ Analysis.final_decision = "dangerous"
    /\ Analysis.risk_score = DangerousFrom

C9_RetriedOnce ==
    last.op \in WriteOps =>
        \A i \in StorageFailures :
            i < Len(last.calls) /\ last.calls[i + 1].op = last.calls[i].op

\* C10: in a store-writing handler the first call is create_or_update_session,
\* the classifiers and every record operation run only after it returned, and
\* no call is refused with UnknownSession.
C10_SessionFirst ==
    last.op \in WriteOps =>
        /\ last.calls[1].op = "create_or_update_session"
        /\ \A i \in DOMAIN last.calls :
               /\ last.calls[i].outcome # "UnknownSession"
               /\ last.calls[i].op \in RecordOps \cup {"analyze_sync"}
                      => last.calls[1].outcome = "ok" /\ i > 1

\* C10 witness: a chat established its session, ran the classifiers and wrote
\* its records.
C10_Witness ==
    /\ last.op = "chat"
    /\ Returned
    /\ last.calls[1] = [op |-> "create_or_update_session", outcome |-> "ok"]
    /\ Len(NewTurns) = 1
    /\ Len(NewScans) >= 1

====
